---- MODULE Spec2Model ----
(***************************************************************************)
(* miniplonk: the circuit builder (src/src/circuit.rs) and the prover's    *)
(* witness engine and trace polynomial (src/src/prover.rs) as a state      *)
(* machine.                                                                *)
(*                                                                         *)
(* usize values are kept as integers; a value that wrapped below zero in a *)
(* build without overflow checks is kept as the negative integer v that    *)
(* stands for 2^64 + v, and is ordered (ULess) as the unsigned value.      *)
(* Field elements of F are integers modulo the field's order.              *)
(***************************************************************************)
EXTENDS Integers, Sequences, FiniteSets, TLC

VARIABLES
    debug_build,     \* TRUE: overflow checks and debug_assert! are compiled in
    input_config,    \* CircuitBuilder.input_config
    current_row,     \* CircuitBuilder.current_row
    ops,             \* CircuitBuilder.ops
    wiring_pairs,    \* CircuitBuilder.wiring_pairs
    builder_live,    \* FALSE once build(self) has consumed the builder
    circuit,         \* the built Circuit, or NoCircuit
    prover,          \* the Prover, or NoProver
    pc,              \* position: "idle", inside calculate_witness, or "aborted"
    i,               \* calculate_witness: index of the input loop
    trace,           \* calculate_witness: local trace, Vec<Option<F>>
    eval_queue,      \* calculate_witness: local eval_queue, VecDeque<usize>
    ret,             \* what the last call returned
    witness_done,    \* history: a calculate_witness call has returned Ok
    verifier         \* the Verifier, or NoVerifier

vars == <<debug_build, input_config, current_row, ops, wiring_pairs, builder_live,
          circuit, prover, pc, i, trace, eval_queue, ret, witness_done, verifier>>

builder_vars == <<input_config, current_row, ops, wiring_pairs, builder_live>>
witness_vars == <<pc, i, trace, eval_queue>>

(***************************************************************************)
(* Bounds of the model.                                                    *)
(***************************************************************************)
MaxPub == 1
MaxPriv == 1
MaxRows == 2
MaxWires == 1
MaxOps == 2
MaxVal == 1
ExampleMaxVal == 7

(***************************************************************************)
(* Values.                                                                 *)
(***************************************************************************)
None == [some |-> FALSE, v |-> 0]
Some(x) == [some |-> TRUE, v |-> x]

Input(x) == [kind |-> "Input", id |-> x]
Wire(x) == [kind |-> "Wire", id |-> x]
NoRef == [kind |-> "None", id |-> 0]

InputConfig(n_pub, n_priv) == [n_pub |-> n_pub, n_priv |-> n_priv]
total_input(cfg) == cfg.n_pub + cfg.n_priv

\* Unsigned order of usize values (negative integers stand for wrapped values).
ULess(a, b) ==
    IF (a >= 0) = (b >= 0) THEN a < b ELSE a >= 0

\* Display of a usize ({} in a format string): its decimal digits.
DigitChars == <<"0", "1", "2", "3", "4", "5", "6", "7", "8", "9">>

RECURSIVE Digits(_)
Digits(n) ==
    IF n < 10 THEN <<DigitChars[n + 1]>>
    ELSE Digits(n \div 10) \o <<DigitChars[(n % 10) + 1]>>

\* The last call and what it returned.  status is "Ok", "Err" (an anyhow error
\* with message msg, a sequence of text pieces) or "Panic" (the call aborted);
\* args and row are the operands of a gate call and current_row when it was made.
Ret(call, status) ==
    [call |-> call, status |-> status, msg |-> <<>>, ref |-> NoRef,
     refs |-> <<<<>>, <<>>>>, poly |-> <<>>, args |-> <<>>, row |-> 0]
RetErr(call, msg) == [Ret(call, "Err") EXCEPT !.msg = msg]
RetRef(call, r) == [Ret(call, "Ok") EXCEPT !.ref = r]

(***************************************************************************)
(* CircuitBuilder.                                                         *)
(***************************************************************************)
get_input_refs(cfg) ==
    LET pb_len == cfg.n_pub
        prv_len == cfg.n_priv
    IN  << [k \in 1..(pb_len + 1) |-> Input(k)],
           [k \in 1..prv_len |-> Input(pb_len + k)] >>

\* validate_cell_ref with the wire bound off by one (> for >=).
validate_cell_ref_wire_off_by_one(cfg, row, cell) ==
    LET n_input == total_input(cfg)
    IN  IF cell.kind = "Input"
        THEN IF cell.id = 0 \/ cell.id > n_input
             THEN <<"Input ">> \o Digits(cell.id) \o <<" does not exist.">>
             ELSE <<>>
        ELSE IF cell.id > row * 3
             THEN <<"Wire ">> \o Digits(cell.id) \o <<" does not exist.">>
             ELSE <<>>

\* Ok: <<>>; otherwise the error's message.
validate_cell_ref(cfg, row, cell) ==
    LET n_input == total_input(cfg)
    IN  IF cell.kind = "Input"
        THEN IF cell.id = 0 \/ cell.id > n_input
             THEN <<"Input ">> \o Digits(cell.id) \o <<" does not exist.">>
             ELSE <<>>
        ELSE IF cell.id >= row * 3
             THEN <<"Wire ">> \o Digits(cell.id) \o <<" does not exist.">>
             ELSE <<>>

\* A gate call that wires rhs to the lhs cell and lhs to the rhs cell.
add_gate_operands_swapped(call, op, cfg, row, the_ops, pairs, lhs, rhs) ==
    LET el == validate_cell_ref(cfg, row, lhs)
        er == validate_cell_ref(cfg, row, rhs)
        pos == row * 3
    IN  IF el # <<>>
        THEN [ret |-> RetErr(call, <<"LHS: ">> \o el),
              current_row |-> row, ops |-> the_ops, wiring_pairs |-> pairs]
        ELSE IF er # <<>>
        THEN [ret |-> RetErr(call, <<"RHS: ">> \o er),
              current_row |-> row, ops |-> the_ops, wiring_pairs |-> pairs]
        ELSE [ret |-> RetRef(call, Wire(pos + 2)),
              current_row |-> row + 1,
              ops |-> Append(the_ops, op),
              wiring_pairs |-> pairs \o << <<rhs, Wire(pos)>>, <<lhs, Wire(pos + 1)>> >>]

\* A gate call that allocates the row and wires lhs before it validates rhs.
add_gate_validates_rhs_late(call, op, cfg, row, the_ops, pairs, lhs, rhs) ==
    LET el == validate_cell_ref(cfg, row, lhs)
        er == validate_cell_ref(cfg, row, rhs)
        pos == row * 3
    IN  IF el # <<>>
        THEN [ret |-> RetErr(call, <<"LHS: ">> \o el),
              current_row |-> row, ops |-> the_ops, wiring_pairs |-> pairs]
        ELSE IF er # <<>>
        THEN [ret |-> RetErr(call, <<"RHS: ">> \o er),
              current_row |-> row + 1,
              ops |-> Append(the_ops, op),
              wiring_pairs |-> Append(pairs, <<lhs, Wire(pos)>>)]
        ELSE [ret |-> RetRef(call, Wire(pos + 2)),
              current_row |-> row + 1,
              ops |-> Append(the_ops, op),
              wiring_pairs |-> pairs \o << <<lhs, Wire(pos)>>, <<rhs, Wire(pos + 1)>> >>]

\* The outcome of a gate call: the error of the first invalid operand, or the
\* new builder fields and the returned reference.
add_gate(call, op, cfg, row, the_ops, pairs, lhs, rhs) ==
    LET el == validate_cell_ref(cfg, row, lhs)
        er == validate_cell_ref(cfg, row, rhs)
        pos == row * 3
    IN  IF el # <<>>
        THEN [ret |-> RetErr(call, <<"LHS: ">> \o el),
              current_row |-> row, ops |-> the_ops, wiring_pairs |-> pairs]
        ELSE IF er # <<>>
        THEN [ret |-> RetErr(call, <<"RHS: ">> \o er),
              current_row |-> row, ops |-> the_ops, wiring_pairs |-> pairs]
        ELSE [ret |-> RetRef(call, Wire(pos + 2)),
              current_row |-> row + 1,
              ops |-> Append(the_ops, op),
              wiring_pairs |-> pairs \o << <<lhs, Wire(pos)>>, <<rhs, Wire(pos + 1)>> >>]

add_addition(cfg, row, the_ops, pairs, lhs, rhs) ==
    add_gate("add_addition", "Add", cfg, row, the_ops, pairs, lhs, rhs)

add_multiplication(cfg, row, the_ops, pairs, lhs, rhs) ==
    add_gate("add_multiplication", "Mul", cfg, row, the_ops, pairs, lhs, rhs)

add_wire_constraint(pairs, x, y) == Append(pairs, <<x, y>>)

\* resolve with input indices taken as 0-based.
resolve_zero_based(n_cells, ref) ==
    IF ref.kind = "Wire" THEN ref.id ELSE n_cells - ref.id - 1

\* build(): a reference resolved to its address.  n_cells - x wraps when
\* x > n_cells (and panics instead when overflow checks are on).
resolve(n_cells, ref) ==
    IF ref.kind = "Wire" THEN ref.id ELSE n_cells - ref.id

resolve_overflows(n_cells, ref) ==
    ref.kind = "Input" /\ ref.id > n_cells

\* Index of the first set of wirings that contains x, 0 when there is none.
find_set(wirings, x) ==
    IF \E k \in 1..Len(wirings) : x \in wirings[k]
    THEN CHOOSE k \in 1..Len(wirings) :
            /\ x \in wirings[k]
            /\ \A j \in 1..(k - 1) : x \notin wirings[j]
    ELSE 0

\* The fold step that leaves the sets alone when one already holds x.
fold_pair_keeps_found_set(wirings, x, y) ==
    LET kx == find_set(wirings, x)
        ky == find_set(wirings, y)
    IN  IF kx # 0 THEN wirings
        ELSE IF ky # 0 THEN [wirings EXCEPT ![ky] = @ \cup {x}]
        ELSE Append(wirings, {x, y})

\* build(): one wiring pair folded into the accumulating sets.
fold_pair(wirings, x, y) ==
    LET kx == find_set(wirings, x)
        ky == find_set(wirings, y)
    IN  IF kx # 0 THEN [wirings EXCEPT ![kx] = @ \cup {y}]
        ELSE IF ky # 0 THEN [wirings EXCEPT ![ky] = @ \cup {x}]
        ELSE Append(wirings, {x, y})

RECURSIVE fold_pairs(_, _, _, _)
fold_pairs(n_cells, pairs, k, wirings) ==
    IF k > Len(pairs) THEN wirings
    ELSE fold_pairs(n_cells, pairs, k + 1,
                    fold_pair(wirings, resolve(n_cells, pairs[k][1]),
                                       resolve(n_cells, pairs[k][2])))

\* v.sort(): the elements of a set in ascending unsigned order.
RECURSIVE sorted(_)
sorted(S) ==
    IF S = {} THEN <<>>
    ELSE LET m == CHOOSE x \in S : \A y \in S : x = y \/ ULess(x, y)
         IN  <<m>> \o sorted(S \ {m})

NoCircuit ==
    [built |-> FALSE, input_config |-> InputConfig(0, 0), selectors |-> <<>>,
     copy_constraints |-> <<>>, n_cells |-> 0, n_rows |-> 0, output |-> 0]

\* build(): "Panic" when an arithmetic overflow check fires, otherwise the Circuit.
build(debug, cfg, row, the_ops, pairs) ==
    LET n_input == total_input(cfg)
        n_cells == n_input + row * 3
        inputs == [k \in 1..n_input |-> {n_cells - k}]
        overflow ==
            \/ \E k \in 1..Len(pairs) :
                  resolve_overflows(n_cells, pairs[k][1])
                  \/ resolve_overflows(n_cells, pairs[k][2])
            \/ row * 3 < 1
        wirings == fold_pairs(n_cells, pairs, 1, inputs)
    IN  IF debug /\ overflow
        THEN [status |-> "Panic", circuit |-> NoCircuit]
        ELSE [status |-> "Ok",
              circuit |->
                [built |-> TRUE,
                 input_config |-> cfg,
                 selectors |-> the_ops,
                 copy_constraints |-> [k \in 1..Len(wirings) |-> sorted(wirings[k])],
                 n_cells |-> n_cells,
                 n_rows |-> row,
                 output |-> row * 3 - 1]]

(***************************************************************************)
(* Circuit.                                                                *)
(***************************************************************************)
n_inputs(circ) == total_input(circ.input_config)

\* Elements of a sequence.
Range(s) == {s[k] : k \in 1..Len(s)}

\* The first copy-constraint set that contains id, or None.
get_copy_constraints(circ, id) ==
    LET cc == circ.copy_constraints
    IN  IF \E k \in 1..Len(cc) : id \in Range(cc[k])
        THEN Some(cc[CHOOSE k \in 1..Len(cc) :
                         /\ id \in Range(cc[k])
                         /\ \A j \in 1..(k - 1) : id \notin Range(cc[j])])
        ELSE [some |-> FALSE, v |-> <<>>]

get_selector(circ, row) ==
    IF row >= 0 /\ row < Len(circ.selectors)
    THEN [some |-> TRUE, v |-> circ.selectors[row + 1]]
    ELSE [some |-> FALSE, v |-> "Add"]

(***************************************************************************)
(* The field F: FftField of a Prover<F>.  p is the order of the field,     *)
(* two_adicity is F::TWO_ADICITY, small_subgroup_base and                  *)
(* small_subgroup_base_adicity are F::SMALL_SUBGROUP_BASE and its adicity  *)
(* (0 and 0 when F declares none), and root is an element of order         *)
(* 2^two_adicity * small_subgroup_base^small_subgroup_base_adicity.        *)
(* F97 is a radix-2 field as BLS12-381 Fr is; F127, F19 and F7 have        *)
(* two-adicity 1 and a subgroup of order a power of 3, as BLS12-381 Fq has.*)
(***************************************************************************)
F97 == [p |-> 97, two_adicity |-> 5, small_subgroup_base |-> 0,
        small_subgroup_base_adicity |-> 0, root |-> 28]
F127 == [p |-> 127, two_adicity |-> 1, small_subgroup_base |-> 3,
         small_subgroup_base_adicity |-> 2, root |-> 28]
F19 == [p |-> 19, two_adicity |-> 1, small_subgroup_base |-> 3,
        small_subgroup_base_adicity |-> 2, root |-> 2]
F7 == [p |-> 7, two_adicity |-> 1, small_subgroup_base |-> 3,
       small_subgroup_base_adicity |-> 1, root |-> 3]
Fields == {F97, F19, F7}
ExampleFields == {F97, F127}

FAdd(F, a, b) == (a + b) % F.p
FMul(F, a, b) == (a * b) % F.p

\* a^e by squaring.
RECURSIVE FPow(_, _, _)
FPow(F, a, e) ==
    IF e = 0 THEN 1 % F.p
    ELSE LET h == FPow(F, a, e \div 2)
             sq == FMul(F, h, h)
         IN  IF e % 2 = 1 THEN FMul(F, sq, a) ELSE sq

FInv(F, a) == FPow(F, a, F.p - 2)

(***************************************************************************)
(* Prover.                                                                 *)
(***************************************************************************)
NoTrace == [some |-> FALSE, v |-> <<>>]

NoProver ==
    [live |-> FALSE, field |-> F97, public_input |-> <<>>, private_input |-> <<>>,
     computation_trace |-> NoTrace]

\* get_input_val with the private inputs ahead of the public ones.
get_input_val_private_first(prv, id) ==
    IF id < Len(prv.private_input)
    THEN Some(prv.private_input[id + 1])
    ELSE IF id - Len(prv.private_input) < Len(prv.public_input)
         THEN Some(prv.public_input[id - Len(prv.private_input) + 1])
         ELSE None

get_input_val(prv, id) ==
    IF id < Len(prv.public_input)
    THEN Some(prv.public_input[id + 1])
    ELSE IF id - Len(prv.public_input) < Len(prv.private_input)
         THEN Some(prv.private_input[id - Len(prv.public_input) + 1])
         ELSE None

\* The closure with a readiness test that does not look at the out cell.
visit_cell_ignores_out(circ, w, cell_id, value) ==
    IF w.panic \/ cell_id < 0 \/ cell_id >= circ.n_cells
    THEN [w EXCEPT !.panic = TRUE]
    ELSE LET tr == [w.trace EXCEPT ![cell_id] = Some(value)]
             row == cell_id \div 3
         IN  IF row < circ.n_rows /\ tr[row * 3].some /\ tr[row * 3 + 1].some
             THEN [w EXCEPT !.trace = tr, !.queue = Append(@, row * 3 + 2)]
             ELSE [w EXCEPT !.trace = tr]

\* The closure with a readiness test that looks at the lhs cell only.
visit_cell_lhs_only(circ, w, cell_id, value) ==
    IF w.panic \/ cell_id < 0 \/ cell_id >= circ.n_cells
    THEN [w EXCEPT !.panic = TRUE]
    ELSE LET tr == [w.trace EXCEPT ![cell_id] = Some(value)]
             row == cell_id \div 3
         IN  IF row < circ.n_rows
                /\ tr[row * 3].some /\ ~tr[row * 3 + 2].some
             THEN [w EXCEPT !.trace = tr, !.queue = Append(@, row * 3 + 2)]
             ELSE [w EXCEPT !.trace = tr]

\* The closure run on each cell of a copy-constraint set (both loops of
\* calculate_witness): w is [panic, trace, queue].
visit_cell(circ, w, cell_id, value) ==
    IF w.panic \/ cell_id < 0 \/ cell_id >= circ.n_cells
    THEN [w EXCEPT !.panic = TRUE]
    ELSE LET tr == [w.trace EXCEPT ![cell_id] = Some(value)]
             row == cell_id \div 3
         IN  IF row < circ.n_rows
                /\ tr[row * 3].some /\ tr[row * 3 + 1].some /\ ~tr[row * 3 + 2].some
             THEN [w EXCEPT !.trace = tr, !.queue = Append(@, row * 3 + 2)]
             ELSE [w EXCEPT !.trace = tr]

\* .iter().for_each(closure) over the cells of a set, from the k-th one on; the
\* state w1 the closure leaves is bound before the next cell is visited.
RECURSIVE for_each(_, _, _, _, _)
for_each(circ, w, cells, k, value) ==
    IF k > Len(cells) THEN w
    ELSE CHOOSE r \in {for_each(circ, w1, cells, k + 1, value) :
                          w1 \in {visit_cell(circ, w, cells[k], value)}} : TRUE

\* One iteration of the input loop of calculate_witness.
input_iteration(circ, prv, idx, tr, queue) ==
    LET value == get_input_val(prv, idx)
        id == circ.n_cells - (idx + 1)
        cc == get_copy_constraints(circ, id)
        w0 == [panic |-> FALSE, trace |-> tr, queue |-> queue]
    IN  IF ~value.some \/ ~cc.some
        THEN [w0 EXCEPT !.panic = TRUE]
        ELSE for_each(circ, [w0 EXCEPT !.trace[id] = Some(value.v)], cc.v, 1, value.v)

\* One iteration of the queue loop of calculate_witness (the queue is not empty).
queue_iteration(circ, prv, tr, queue) ==
    LET id == Head(queue)
        w0 == [panic |-> FALSE, trace |-> tr, queue |-> Tail(queue)]
        op == get_selector(circ, id \div 3)
    IN  IF id - 2 < 0 \/ id >= circ.n_cells
           \/ ~tr[id - 2].some \/ ~tr[id - 1].some \/ ~op.some
        THEN [w0 EXCEPT !.panic = TRUE]
        ELSE LET lhs == tr[id - 2].v
                 rhs == tr[id - 1].v
                 value == IF op.v = "Add" THEN FAdd(prv.field, lhs, rhs)
                                          ELSE FMul(prv.field, lhs, rhs)
                 w1 == [w0 EXCEPT !.trace[id] = Some(value)]
                 cc == get_copy_constraints(circ, id)
             IN  IF id = circ.output THEN w1
                 ELSE IF ~cc.some THEN [w1 EXCEPT !.panic = TRUE]
                 ELSE for_each(circ, w1, cc.v, 1, value)

\* Verifier { circuit, public_inputs } before Verifier::new.
NoVerifier == [live |-> FALSE, public_inputs |-> <<>>]

\* The end of calculate_witness, once the queue is empty: the status returned
\* and the prover's computation_trace afterwards.
finish_witness(debug, circ, prv, tr) ==
    LET filled == \A a \in 0..(circ.n_cells - 1) : tr[a].some
    IN  IF ~filled
        THEN [status |-> IF debug THEN "Panic" ELSE "Err",
              msg |-> IF debug THEN <<>> ELSE <<"Not all the cells are filled">>,
              computation_trace |-> prv.computation_trace]
        ELSE [status |-> "Ok", msg |-> <<>>,
              computation_trace |->
                [some |-> TRUE, v |-> [k \in 1..circ.n_cells |-> tr[k - 1].v]]]

\* The input loop of calculate_witness from index idx on.
RECURSIVE input_loop(_, _, _, _)
input_loop(circ, prv, idx, w) ==
    IF idx >= n_inputs(circ) \/ w.panic THEN w
    ELSE input_loop(circ, prv, idx + 1,
                    input_iteration(circ, prv, idx, w.trace, w.queue))

\* The queue loop of calculate_witness.
RECURSIVE queue_loop(_, _, _)
queue_loop(circ, prv, w) ==
    IF w.queue = <<>> \/ w.panic THEN w
    ELSE queue_loop(circ, prv, queue_iteration(circ, prv, w.trace, w.queue))

\* calculate_witness as one call: the status and message returned and the
\* prover's computation_trace afterwards.
calculate_witness(debug, circ, prv) ==
    LET w0 == [panic |-> FALSE, trace |-> [a \in 0..(circ.n_cells - 1) |-> None],
               queue |-> <<>>]
        w == queue_loop(circ, prv, input_loop(circ, prv, 0, w0))
    IN  IF w.panic
        THEN [status |-> "Panic", msg |-> <<>>,
              computation_trace |-> prv.computation_trace]
        ELSE finish_witness(debug, circ, prv, w.trace)

(***************************************************************************)
(* The trace polynomial.                                                   *)
(***************************************************************************)
\* usize::checked_next_power_of_two for the sizes of the model (it is None
\* only above 2^63, which no circuit held in memory reaches).
RECURSIVE next_power_of_two_from(_, _)
next_power_of_two_from(n, pow) ==
    IF pow >= n THEN pow ELSE next_power_of_two_from(n, 2 * pow)

checked_next_power_of_two(n) == Some(next_power_of_two_from(n, 1))

RECURSIVE Log2(_)
Log2(size) == IF size <= 1 THEN 0 ELSE 1 + Log2(size \div 2)

RECURSIVE IntPow(_, _)
IntPow(b, k) == IF k = 0 THEN 1 ELSE b * IntPow(b, k - 1)

\* The order of the largest subgroup F offers for FFTs.
large_subgroup_order(F) ==
    IntPow(2, F.two_adicity)
        * IntPow(F.small_subgroup_base, F.small_subgroup_base_adicity)

\* F::get_root_of_unity(n) for n dividing large_subgroup_order(F).
get_root_of_unity(F, n) == FPow(F, F.root, large_subgroup_order(F) \div n)

\* The doublings that take r to min_size or above.
RECURSIVE doublings(_, _)
doublings(r, min_size) ==
    IF r >= min_size THEN 0 ELSE 1 + doublings(2 * r, min_size)

\* best_mixed_domain_size: the least 3^b * 2^a >= min_size that F offers, a
\* being the least for its b; the empty set stands for usize::MAX.
mixed_domain_sizes(F, min_size) ==
    LET q == F.small_subgroup_base
    IN  { IntPow(q, b) * IntPow(2, doublings(IntPow(q, b), min_size)) :
            b \in { c \in 0..F.small_subgroup_base_adicity :
                      doublings(IntPow(q, c), min_size) <= F.two_adicity } }

\* GeneralEvaluationDomain::<F>::new(size) for size a power of two: the radix-2
\* domain of that size when 2^two_adicity reaches it, otherwise the smallest
\* mixed-radix domain of at least that size, or None when F offers neither.
new_domain(F, size) ==
    LET no_domain == [some |-> FALSE, size |-> 0, group_gen |-> 0]
        mixed == mixed_domain_sizes(F, size)
        best == CHOOSE n \in mixed : \A m \in mixed : n <= m
    IN  IF Log2(size) <= F.two_adicity
        THEN [some |-> TRUE, size |-> size, group_gen |-> get_root_of_unity(F, size)]
        ELSE IF F.small_subgroup_base = 0 \/ mixed = {} THEN no_domain
        ELSE [some |-> TRUE, size |-> best, group_gen |-> get_root_of_unity(F, best)]

RECURSIVE FSum(_, _, _, _)
\* Sum over j in lo..hi of term[j] in F.
FSum(F, term, lo, hi) ==
    IF lo > hi THEN 0 ELSE FAdd(F, term[lo], FSum(F, term, lo + 1, hi))

\* domain.ifft(evals) without the division by the domain's size.
ifft_unscaled(F, domain, evals) ==
    LET n == domain.size
        e == [j \in 0..(n - 1) |-> IF j < Len(evals) THEN evals[j + 1] ELSE 0]
        w_inv == FInv(F, domain.group_gen)
    IN  [k \in 1..n |->
            FSum(F, [j \in 0..(n - 1) |->
                        FMul(F, e[j], FPow(F, w_inv, (j * (k - 1)) % n))],
                 0, n - 1)]

\* domain.ifft(evals): evals is padded with zeros to the domain's size; the
\* coefficient of x^k is size^-1 * sum_j evals[j] * group_gen^(-j*k).
ifft(F, domain, evals) ==
    LET n == domain.size
        e == [j \in 0..(n - 1) |-> IF j < Len(evals) THEN evals[j + 1] ELSE 0]
        n_inv == FInv(F, n % F.p)
        w_inv == FInv(F, domain.group_gen)
    IN  [k \in 1..n |->
            FMul(F, n_inv,
                 FSum(F, [j \in 0..(n - 1) |->
                             FMul(F, e[j], FPow(F, w_inv, (j * (k - 1)) % n))],
                      0, n - 1))]

\* DensePolynomial::from_coefficients_vec: trailing zero coefficients dropped.
RECURSIVE from_coefficients_vec(_)
from_coefficients_vec(coeffs) ==
    IF coeffs # <<>> /\ coeffs[Len(coeffs)] = 0
    THEN from_coefficients_vec(SubSeq(coeffs, 1, Len(coeffs) - 1))
    ELSE coeffs

\* compute_trace_polynomial taking a missing trace as the empty trace.
compute_trace_polynomial_unwrap_or_default(circ, prv) ==
    LET call == "compute_trace_polynomial"
        size == checked_next_power_of_two(circ.n_cells)
        domain == new_domain(prv.field, size.v)
        tr == prv.computation_trace
    IN  IF ~size.some THEN RetErr(call, <<"Circuit size is too large.">>)
        ELSE IF ~domain.some
        THEN RetErr(call, <<"Domain cannot be constructed from circuit size">>)
        ELSE [Ret(call, "Ok") EXCEPT
                !.poly = from_coefficients_vec(ifft(prv.field, domain, tr.v))]

compute_trace_polynomial(circ, prv) ==
    LET call == "compute_trace_polynomial"
        size == checked_next_power_of_two(circ.n_cells)
        domain == new_domain(prv.field, size.v)
        tr == prv.computation_trace
    IN  IF ~size.some THEN RetErr(call, <<"Circuit size is too large.">>)
        ELSE IF ~domain.some
        THEN RetErr(call, <<"Domain cannot be constructed from circuit size">>)
        ELSE IF ~tr.some THEN RetErr(call, <<"Computation should be complete.">>)
        ELSE [Ret(call, "Ok") EXCEPT
                !.poly = from_coefficients_vec(ifft(prv.field, domain, tr.v))]

(***************************************************************************)
(* The public-input and selector polynomials, setup, prove and verify.     *)
(***************************************************************************)
\* Polynomial::evaluate: the value of the polynomial poly (coefficients, lowest
\* degree first) at x.
RECURSIVE evaluate(_, _, _)
evaluate(F, poly, x) ==
    IF poly = <<>> THEN 0
    ELSE FAdd(F, poly[1], FMul(F, x, evaluate(F, Tail(poly), x)))

\* domain.element(j): the domain point of index j.
element(F, domain, j) == FPow(F, domain.group_gen, j)

\* evals.iter().rev(): a sequence reversed.
rev(s) == [k \in 1..Len(s) |-> s[Len(s) + 1 - k]]

\* Evaluations::from_vec_and_domain(evals, domain).interpolate()
interpolate(F, domain, evals) == from_coefficients_vec(ifft(F, domain, evals))

RetPoly(call, poly) == [Ret(call, "Ok") EXCEPT !.poly = poly]

\* pad with the public inputs appended in declaration order.
public_input_evals_unreversed(circ, public_input) ==
    [k \in 1..(circ.n_cells - Len(public_input)) |-> 0] \o public_input

\* The vector pad of compute_public_input_polynomial: n_cells - n_pub zeros,
\* then the public inputs reversed.
public_input_evals(circ, public_input) ==
    [k \in 1..(circ.n_cells - Len(public_input)) |-> 0] \o rev(public_input)

\* common::compute_public_input_polynomial.  n_cells - evals.len() below zero
\* panics on the subtraction or on the allocation of the wrapped length.
compute_public_input_polynomial(F, circ, public_input) ==
    LET call == "compute_public_input_polynomial"
        domain_size == checked_next_power_of_two(circ.n_cells)
        domain == new_domain(F, domain_size.v)
    IN  IF ~domain_size.some \/ Len(public_input) > circ.n_cells \/ ~domain.some
        THEN Ret(call, "Panic")
        ELSE RetPoly(call, interpolate(F, domain, public_input_evals(circ, public_input)))

\* A selector constant that marks the multiplications instead.
selector_value_mul_is_one(op) == IF op = "Mul" THEN 1 ELSE 0

\* The selector constant of an Op in common::compute_selector_polynomial.
selector_value(op) == IF op = "Add" THEN 1 ELSE 0

\* The vector evals of common::compute_selector_polynomial (selectors is not
\* empty): the first selector, then 0, 0 and the selector for each later row.
RECURSIVE selector_evals(_, _)
selector_evals(selectors, k) ==
    IF k > Len(selectors) THEN <<>>
    ELSE (IF k = 1 THEN <<selector_value(selectors[1])>>
                   ELSE <<0, 0, selector_value(selectors[k])>>)
            \o selector_evals(selectors, k + 1)

\* common::compute_selector_polynomial.  selectors[0] panics without rows.
compute_selector_polynomial(F, circ) ==
    LET call == "compute_selector_polynomial"
        domain_size == checked_next_power_of_two(circ.n_cells)
        domain == new_domain(F, domain_size.v)
    IN  IF ~domain_size.some \/ circ.selectors = <<>> \/ ~domain.some
        THEN Ret(call, "Panic")
        ELSE RetPoly(call, interpolate(F, domain, selector_evals(circ.selectors, 1)))

\* setup::compute_public_input_polynomial, the same code as in common.
setup_compute_public_input_polynomial(F, circ, public_inputs) ==
    LET call == "setup::compute_public_input_polynomial"
        domain_size == checked_next_power_of_two(circ.n_cells)
        domain == new_domain(F, domain_size.v)
    IN  IF ~domain_size.some \/ Len(public_inputs) > circ.n_cells \/ ~domain.some
        THEN Ret(call, "Panic")
        ELSE RetPoly(call, interpolate(F, domain, public_input_evals(circ, public_inputs)))

\* setup::compute_selector_polynomial: one evaluation per row, Add -> 0 and
\* Mul -> 1, over a domain sized from n_rows.
setup_compute_selector_polynomial(F, circ) ==
    LET call == "setup::compute_selector_polynomial"
        domain_size == checked_next_power_of_two(circ.n_rows)
        domain == new_domain(F, domain_size.v)
        evals == [k \in 1..Len(circ.selectors) |->
                     IF circ.selectors[k] = "Add" THEN 0 ELSE 1]
    IN  IF ~domain_size.some \/ ~domain.some THEN Ret(call, "Panic")
        ELSE RetPoly(call, interpolate(F, domain, evals))

\* setup(circ, public_input): both polynomials are computed and dropped, and
\* the empty PublicParameters is returned.
setup(F, circ, public_input) ==
    LET pi_poly == setup_compute_public_input_polynomial(F, circ, public_input)
        s_poly == setup_compute_selector_polynomial(F, circ)
    IN  IF pi_poly.status = "Panic" \/ s_poly.status = "Panic"
        THEN Ret("setup", "Panic")
        ELSE Ret("setup", "Ok")

\* The error compute_trace_polynomial returns with `?`, <<>> when it goes on
\* to the inverse FFT.
trace_polynomial_error(circ, prv) ==
    LET size == checked_next_power_of_two(circ.n_cells)
    IN  IF ~size.some THEN <<"Circuit size is too large.">>
        ELSE IF ~new_domain(prv.field, size.v).some
        THEN <<"Domain cannot be constructed from circuit size">>
        ELSE IF ~prv.computation_trace.some THEN <<"Computation should be complete.">>
        ELSE <<>>

\* The unwraps of common::compute_selector_polynomial and
\* common::compute_public_input_polynomial panic.
common_polynomials_panic(F, circ, public_input) ==
    LET domain_size == checked_next_power_of_two(circ.n_cells)
    IN  \/ ~domain_size.some
        \/ circ.selectors = <<>>
        \/ Len(public_input) > circ.n_cells
        \/ ~new_domain(F, domain_size.v).some

\* Prover::prove: what it returns and the prover afterwards.  The witness is
\* calculated when none is stored, the trace, selector and public-input
\* polynomials are computed, and every path past them reaches todo!().
prove(debug, circ, prv) ==
    LET cw == IF prv.computation_trace.some
              THEN [status |-> "Ok", msg |-> <<>>,
                    computation_trace |-> prv.computation_trace]
              ELSE calculate_witness(debug, circ, prv)
        prv1 == [prv EXCEPT !.computation_trace = cw.computation_trace]
        t_err == trace_polynomial_error(circ, prv1)
    IN  IF cw.status = "Panic" THEN [ret |-> Ret("prove", "Panic"), prover |-> prv]
        ELSE IF cw.status = "Err"
        THEN [ret |-> RetErr("prove", cw.msg), prover |-> prv]
        ELSE IF t_err # <<>>
        THEN [ret |-> RetErr("prove", t_err), prover |-> prv1]
        ELSE IF common_polynomials_panic(prv.field, circ, prv.public_input)
        THEN [ret |-> Ret("prove", "Panic"), prover |-> prv1]
        ELSE [ret |-> Ret("prove", "Panic"), prover |-> prv1]   \* todo!()

\* Verifier::verify: todo!().
verify(vrf, proof) == Ret("verify", "Panic")

(***************************************************************************)
(* The inputs the model draws.                                             *)
(***************************************************************************)
Configs == {InputConfig(a, b) : a \in 0..MaxPub, b \in 0..MaxPriv}

\* Operands offered to the gate calls: the valid ones.
ValidRefs(cfg, row) ==
    {Input(x) : x \in 1..total_input(cfg)} \cup {Wire(x) : x \in 0..(3 * row - 1)}

\* Operands offered to the gate calls: every input index from 0 to one past
\* the last, index 100, and every wire address up to one past the first that
\* is not allocated.
GateRefs(cfg, row) ==
    {Input(x) : x \in 0..(total_input(cfg) + 1)} \cup {Input(100)}
    \cup {Wire(x) : x \in 0..(3 * row + 1)}

\* References offered to add_wire_constraint: inputs (index 0 and index 100
\* are not declared inputs) and the first wire addresses.
WireRefs(cfg) ==
    {Input(x) : x \in 0..total_input(cfg)} \cup {Input(100)}
    \cup {Wire(x) : x \in 0..3}

Vals(max) == 0..max

Seqs(S, n) == [1..n -> S]

explicit_wires == Len(wiring_pairs) - 2 * current_row

\* The calls that compute a polynomial and change nothing.  The model makes
\* one only from a state that another kind of call has left.
PureCalls ==
    {"compute_trace_polynomial", "compute_public_input_polynomial",
     "compute_selector_polynomial"}

(***************************************************************************)
(* Actions.                                                                *)
(***************************************************************************)
InitWith(cfgs) ==
    /\ debug_build \in BOOLEAN
    /\ input_config \in cfgs
    /\ current_row = 0
    /\ ops = <<>>
    /\ wiring_pairs = <<>>
    /\ builder_live = TRUE
    /\ circuit = NoCircuit
    /\ prover = NoProver
    /\ pc = "idle"
    /\ i = 0
    /\ trace = <<>>
    /\ eval_queue = <<>>
    /\ witness_done = FALSE
    /\ verifier = NoVerifier
    /\ ret = Ret("new", "Ok")

Init == InitWith(Configs)

\* The bounds of the model on the builder's calls.
RowsLeft == current_row < MaxRows /\ current_row + explicit_wires < MaxOps
WiresLeft == explicit_wires < MaxWires /\ current_row + explicit_wires < MaxOps

GetInputRefs ==
    /\ builder_live
    /\ pc = "idle"
    /\ ret' = [Ret("get_input_refs", "Ok") EXCEPT !.refs = get_input_refs(input_config)]
    /\ UNCHANGED <<verifier, debug_build, builder_vars, circuit, prover, witness_vars, witness_done>>

GateCall(r, lhs, rhs) ==
    /\ current_row' = r.current_row
    /\ ops' = r.ops
    /\ wiring_pairs' = r.wiring_pairs
    /\ ret' = [r.ret EXCEPT !.args = <<lhs, rhs>>, !.row = current_row]
    /\ UNCHANGED <<verifier, debug_build, input_config, builder_live, circuit, prover,
                   witness_vars, witness_done>>

AddAddition(lhs, rhs) ==
    /\ builder_live
    /\ pc = "idle"
    /\ GateCall(add_addition(input_config, current_row, ops, wiring_pairs, lhs, rhs),
                lhs, rhs)

AddMultiplication(lhs, rhs) ==
    /\ builder_live
    /\ pc = "idle"
    /\ GateCall(add_multiplication(input_config, current_row, ops, wiring_pairs, lhs, rhs),
                lhs, rhs)

AddWireConstraint(x, y) ==
    /\ builder_live
    /\ pc = "idle"
    /\ wiring_pairs' = add_wire_constraint(wiring_pairs, x, y)
    /\ ret' = Ret("add_wire_constraint", "Ok")
    /\ UNCHANGED <<verifier, debug_build, input_config, current_row, ops, builder_live, circuit,
                   prover, witness_vars, witness_done>>

Build ==
    /\ builder_live
    /\ pc = "idle"
    /\ LET b == build(debug_build, input_config, current_row, ops, wiring_pairs)
       IN  /\ circuit' = b.circuit
           /\ ret' = Ret("build", b.status)
           /\ pc' = IF b.status = "Panic" THEN "aborted" ELSE pc
    /\ builder_live' = FALSE
    /\ UNCHANGED <<verifier, debug_build, input_config, current_row, ops, wiring_pairs, prover,
                   i, trace, eval_queue, witness_done>>

\* Prover::<F>::new(circuit, pp, public_input, private_input)
ProverNew(F, pub, priv) ==
    /\ circuit.built
    /\ ~prover.live
    /\ pc = "idle"
    /\ prover' = [live |-> TRUE, field |-> F, public_input |-> pub,
                  private_input |-> priv, computation_trace |-> NoTrace]
    /\ ret' = Ret("Prover::new", "Ok")
    /\ UNCHANGED <<verifier, debug_build, builder_vars, circuit, witness_vars, witness_done>>

\* calculate_witness, up to the input loop.
CalculateWitness ==
    /\ prover.live
    /\ pc = "idle"
    /\ ~prover.computation_trace.some
    /\ pc' = "inputs"
    /\ i' = 0
    /\ trace' = [a \in 0..(circuit.n_cells - 1) |-> None]
    /\ eval_queue' = <<>>
    /\ ret' = Ret("calculate_witness", "Running")
    /\ UNCHANGED <<verifier, debug_build, builder_vars, circuit, prover, witness_done>>

WitnessStep(w, next_i, next_pc) ==
    /\ trace' = w.trace
    /\ eval_queue' = w.queue
    /\ i' = next_i
    /\ pc' = IF w.panic THEN "aborted" ELSE next_pc
    /\ ret' = IF w.panic THEN Ret("calculate_witness", "Panic") ELSE ret
    /\ UNCHANGED <<verifier, debug_build, builder_vars, circuit, prover, witness_done>>

\* calculate_witness: one iteration of `for i in 0..n_inputs`.
InputLoop ==
    /\ pc = "inputs"
    /\ i < n_inputs(circuit)
    /\ \E w \in {input_iteration(circuit, prover, i, trace, eval_queue)} :
          WitnessStep(w, i + 1, "inputs")

\* calculate_witness: one iteration of `while let Some(id) = eval_queue.pop_front()`.
QueueLoop ==
    /\ pc = "inputs"
    /\ i >= n_inputs(circuit)
    /\ eval_queue # <<>>
    /\ \E w \in {queue_iteration(circuit, prover, trace, eval_queue)} :
          WitnessStep(w, i, "inputs")

\* calculate_witness: from the empty queue to the return.
WitnessReturn ==
    /\ pc = "inputs"
    /\ i >= n_inputs(circuit)
    /\ eval_queue = <<>>
    /\ LET f == finish_witness(debug_build, circuit, prover, trace)
       IN  /\ prover' = [prover EXCEPT !.computation_trace = f.computation_trace]
           /\ ret' = [Ret("calculate_witness", f.status) EXCEPT !.msg = f.msg]
           /\ pc' = IF f.status = "Panic" THEN "aborted" ELSE "idle"
           /\ witness_done' = (witness_done \/ f.status = "Ok")
    /\ i' = 0
    /\ trace' = <<>>
    /\ eval_queue' = <<>>
    /\ UNCHANGED <<verifier, debug_build, builder_vars, circuit>>

ComputeTracePolynomial ==
    /\ prover.live
    /\ pc = "idle"
    /\ ret.call \notin PureCalls
    /\ ret' = compute_trace_polynomial(circuit, prover)
    /\ UNCHANGED <<verifier, debug_build, builder_vars, circuit, prover, witness_vars, witness_done>>

\* A call that only returns: its result, and the abort when it panics.
Returns(r) ==
    /\ ret' = r
    /\ pc' = IF r.status = "Panic" THEN "aborted" ELSE pc
    /\ UNCHANGED <<verifier, debug_build, builder_vars, circuit, prover, i, trace,
                   eval_queue, witness_done>>

\* setup::<F>(&circuit, &public_input)
Setup(F, pub) ==
    /\ circuit.built
    /\ ~prover.live
    /\ pc = "idle"
    /\ Returns(setup(F, circuit, pub))

\* compute_public_input_polynomial(&self.circuit, &self.public_input)
ComputePublicInputPolynomial ==
    /\ prover.live
    /\ pc = "idle"
    /\ ret.call \notin PureCalls
    /\ Returns(compute_public_input_polynomial(prover.field, circuit, prover.public_input))

\* compute_selector_polynomial::<F>(&self.circuit)
ComputeSelectorPolynomial ==
    /\ prover.live
    /\ pc = "idle"
    /\ ret.call \notin PureCalls
    /\ Returns(compute_selector_polynomial(prover.field, circuit))

\* Prover::prove
Prove ==
    /\ prover.live
    /\ pc = "idle"
    /\ ret.call \notin PureCalls
    /\ LET r == prove(debug_build, circuit, prover)
       IN  /\ ret' = r.ret
           /\ prover' = r.prover
           /\ pc' = IF r.ret.status = "Panic" THEN "aborted" ELSE pc
           /\ witness_done' = (witness_done \/ r.prover.computation_trace.some)
    /\ UNCHANGED <<verifier, debug_build, builder_vars, circuit, i, trace, eval_queue>>

\* Verifier::<F>::new(circuit, pp, public_inputs), with the prover's public inputs
VerifierNew ==
    /\ circuit.built
    /\ prover.live
    /\ witness_done
    /\ ~verifier.live
    /\ pc = "idle"
    /\ verifier' = [live |-> TRUE, public_inputs |-> prover.public_input]
    /\ ret' = Ret("Verifier::new", "Ok")
    /\ UNCHANGED <<debug_build, builder_vars, circuit, prover, witness_vars, witness_done>>

\* Verifier::verify(proof)
Verify ==
    /\ verifier.live
    /\ pc = "idle"
    /\ LET r == verify(verifier, "Proof")
       IN  /\ ret' = r
           /\ pc' = IF r.status = "Panic" THEN "aborted" ELSE pc
    /\ UNCHANGED <<verifier, debug_build, builder_vars, circuit, prover, i, trace,
                   eval_queue, witness_done>>

\* The builder's gate calls, with valid and invalid operands.
NextGates ==
    \/ GetInputRefs
    \/ \E lhs, rhs \in GateRefs(input_config, current_row) :
          RowsLeft /\ AddAddition(lhs, rhs)
    \/ \E lhs, rhs \in GateRefs(input_config, current_row) :
          RowsLeft /\ AddMultiplication(lhs, rhs)
    \/ Build

SpecGates == Init /\ [][NextGates]_vars

\* The builder with valid operands, and the prover on the circuit it builds.
Next ==
    \/ \E lhs, rhs \in ValidRefs(input_config, current_row) :
          RowsLeft /\ AddAddition(lhs, rhs)
    \/ \E lhs, rhs \in ValidRefs(input_config, current_row) :
          RowsLeft /\ AddMultiplication(lhs, rhs)
    \/ \E x, y \in WireRefs(input_config) : WiresLeft /\ AddWireConstraint(x, y)
    \/ Build
    \/ \E F \in Fields :
          \E pub \in Seqs(Vals(MaxVal), input_config.n_pub) :
             \E priv \in Seqs(Vals(MaxVal), input_config.n_priv) :
                ProverNew(F, pub, priv)
    \/ CalculateWitness
    \/ InputLoop
    \/ QueueLoop
    \/ WitnessReturn
    \/ ComputeTracePolynomial
    \/ ComputePublicInputPolynomial
    \/ ComputeSelectorPolynomial

Spec == Init /\ [][Next]_vars

\* The builder and calculate_witness alone, with calculate_witness scheduled
\* as the sequential code it is: once the call has started, its next loop
\* iteration or its return is eventually executed.
TerminationFields == {F7}

NextWitness ==
    \/ \E lhs, rhs \in ValidRefs(input_config, current_row) :
          RowsLeft /\ AddAddition(lhs, rhs)
    \/ \E lhs, rhs \in ValidRefs(input_config, current_row) :
          RowsLeft /\ AddMultiplication(lhs, rhs)
    \/ \E x, y \in WireRefs(input_config) : WiresLeft /\ AddWireConstraint(x, y)
    \/ Build
    \/ \E F \in TerminationFields :
          \E pub \in Seqs(Vals(MaxVal), input_config.n_pub) :
             \E priv \in Seqs(Vals(MaxVal), input_config.n_priv) :
                ProverNew(F, pub, priv)
    \/ CalculateWitness
    \/ InputLoop
    \/ QueueLoop
    \/ WitnessReturn

SpecWitness ==
    /\ Init
    /\ [][NextWitness]_vars
    /\ WF_vars(InputLoop)
    /\ WF_vars(QueueLoop)
    /\ WF_vars(WitnessReturn)

\* The worked example (simple_circ of the tests):
\*   out = (pub_0 + priv_0) * pub_1 + priv_0 with InputConfig::new(2, 1),
\* each gate call chained on the reference the call before returned.
InitExample == InitWith({InputConfig(2, 1)})

pb_refs == get_input_refs(input_config)[1]
prv_refs == get_input_refs(input_config)[2]

NextExample ==
    \/ ret.call = "new" /\ GetInputRefs
    \/ ret.call = "get_input_refs" /\ current_row = 0
          /\ AddAddition(ret.refs[1][1], ret.refs[2][1])
    \/ current_row = 1 /\ AddMultiplication(ret.ref, pb_refs[2])
    \/ current_row = 2 /\ AddAddition(ret.ref, prv_refs[1])
    \/ current_row = 3 /\ Build
    \/ \E F \in ExampleFields :
          \E pub \in Seqs(Vals(ExampleMaxVal), input_config.n_pub) :
             \E priv \in Seqs(Vals(ExampleMaxVal), input_config.n_priv) :
                ProverNew(F, pub, priv)
    \/ CalculateWitness
    \/ InputLoop
    \/ QueueLoop
    \/ WitnessReturn
    \/ ComputeTracePolynomial
    \/ \E F \in ExampleFields :
          \E pub \in Seqs(Vals(ExampleMaxVal), input_config.n_pub) : Setup(F, pub)
    \/ ComputePublicInputPolynomial
    \/ Prove
    \/ VerifierNew
    \/ Verify

SpecExample == InitExample /\ [][NextExample]_vars

(***************************************************************************)
(* Properties.                                                             *)
(***************************************************************************)
WitnessReturned == ret.call = "calculate_witness" /\ ret.status # "Running"
WitnessOk == ret.call = "calculate_witness" /\ ret.status = "Ok"

\* The trace of the worked example for public input [a, b] and private input [c].
ExampleTrace(p, a, b, c) ==
    LET s == (a + c) % p
        m == (s * b) % p
        o == (m + c) % p
    IN  <<a, c, s, s, b, m, m, c, o, c, b, a>>

\* C1: on the worked-example circuit, calculate_witness with public input
\* [a, b] and private input [c] returns Ok and stores the trace
\* [a, c, a+c, a+c, b, (a+c)*b, (a+c)*b, c, (a+c)*b+c, c, b, a] over addresses
\* 0..11; for [3, 5], [7] that is [3,7,10,10,5,50,50,7,57,7,5,3].
C1_ExampleTrace ==
    WitnessReturned =>
        /\ ret.status = "Ok"
        /\ prover.computation_trace.some
        /\ prover.computation_trace.v =
              ExampleTrace(prover.field.p, prover.public_input[1],
                           prover.public_input[2], prover.private_input[1])
        /\ (prover.public_input = <<3, 5>> /\ prover.private_input = <<7>>
              => prover.computation_trace.v = <<3, 7, 10, 10, 5, 50, 50, 7, 57, 7, 5, 3>>)

C1_Witness ==
    /\ WitnessOk
    /\ prover.public_input = <<3, 5>>
    /\ prover.private_input = <<7>>

\* C2: build() of the worked example yields the selectors [Add, Mul, Add] and
\* the copy-constraint groups [0,11], [4,10], [1,7,9], [2,3], [5,6], each sorted
\* ascending: Input(i) is resolved to address 12 - i and Wire(x) to x.
C2_ExampleCircuit ==
    circuit.built =>
        /\ circuit.selectors = <<"Add", "Mul", "Add">>
        /\ circuit.n_cells = 12
        /\ circuit.copy_constraints =
              << <<0, 11>>, <<4, 10>>, <<1, 7, 9>>, <<2, 3>>, <<5, 6>> >>

C2_Witness ==
    /\ circuit.built
    /\ current_row = 3
    /\ wiring_pairs = << <<Input(1), Wire(0)>>, <<Input(3), Wire(1)>>,
                         <<Wire(2), Wire(3)>>, <<Input(2), Wire(4)>>,
                         <<Wire(5), Wire(6)>>, <<Input(3), Wire(7)>> >>

\* C3: on every circuit built from add_addition and add_multiplication calls
\* alone (no explicit add_wire_constraint), calculate_witness returns Ok, never
\* an error or an abort, and every one of the n_cells cells is assigned.
C3_PureCircuitWitnessSucceeds ==
    (prover.live /\ explicit_wires = 0 /\ current_row >= 1) =>
        /\ (ret.call = "calculate_witness" => ret.status \in {"Running", "Ok"})
        /\ (WitnessOk => Len(prover.computation_trace.v) = circuit.n_cells)

\* Every recorded reference names a declared input or an allocated wire cell.
RecordedRefsValid ==
    \A k \in 1..Len(wiring_pairs) : \A side \in 1..2 :
        LET r == wiring_pairs[k][side]
        IN  IF r.kind = "Input" THEN r.id >= 1 /\ r.id <= total_input(input_config)
            ELSE r.id < 3 * current_row

\* The gate equation of row r on a stored trace v (v[a + 1] is address a).
GateHolds(p, v, r) ==
    v[3 * r + 3] = IF circuit.selectors[r + 1] = "Add"
                   THEN (v[3 * r + 1] + v[3 * r + 2]) % p
                   ELSE (v[3 * r + 1] * v[3 * r + 2]) % p

\* C4: whenever calculate_witness returns Ok, the stored trace satisfies the
\* gate equation of every row: trace[3r+2] = trace[3r] + trace[3r+1] for Add,
\* trace[3r] * trace[3r+1] for Mul (stated for the builders whose recorded
\* references are all valid).
C4_GateEquationsHold ==
    (WitnessOk /\ RecordedRefsValid) =>
        \A r \in 0..(circuit.n_rows - 1) :
            GateHolds(prover.field.p, prover.computation_trace.v, r)

\* C5: whenever calculate_witness returns Ok, all addresses of one
\* copy-constraint set hold the same value in the stored trace (stated for
\* the builders whose recorded references are all valid).
C5_CopyConstraintsHold ==
    (WitnessOk /\ RecordedRefsValid) =>
        \A k \in 1..Len(circuit.copy_constraints) :
            \A x, y \in Range(circuit.copy_constraints[k]) :
                (x >= 0 /\ x < circuit.n_cells /\ y >= 0 /\ y < circuit.n_cells)
                    => prover.computation_trace.v[x + 1] = prover.computation_trace.v[y + 1]

\* C6: the copy-constraint sets of a built Circuit are pairwise disjoint: no
\* address is a member of two sets (stated for the circuits with a row whose
\* recorded references are all valid).
C6_SetsDisjoint ==
    (circuit.built /\ circuit.n_rows >= 1 /\ RecordedRefsValid) =>
        \A j, k \in 1..Len(circuit.copy_constraints) :
            j # k => Range(circuit.copy_constraints[j])
                        \cap Range(circuit.copy_constraints[k]) = {}

\* The recorded pairs as pairs of addresses, and the addresses a chain of
\* pairs connects to those of S.
RecordedLinks ==
    {<<resolve(circuit.n_cells, wiring_pairs[k][1]),
       resolve(circuit.n_cells, wiring_pairs[k][2])>> : k \in 1..Len(wiring_pairs)}

RECURSIVE Connected(_)
Connected(S) ==
    LET T == S \cup {l[2] : l \in {m \in RecordedLinks : m[1] \in S}}
                \cup {l[1] : l \in {m \in RecordedLinks : m[2] \in S}}
    IN  IF T = S THEN S ELSE Connected(T)

InputAddresses == {circuit.n_cells - k : k \in 1..n_inputs(circuit)}
LinkedAddresses == {l[1] : l \in RecordedLinks} \cup {l[2] : l \in RecordedLinks}

InSameSet(a, b) ==
    \E k \in 1..Len(circuit.copy_constraints) :
        a \in Range(circuit.copy_constraints[k]) /\ b \in Range(circuit.copy_constraints[k])

\* C7: build() computes the equivalence closure of the recorded pairs: two
\* addresses are in one copy-constraint set exactly when a chain of recorded
\* pairs connects them, and there is one set per class (stated for the
\* circuits with a row whose recorded references are all valid).
C7_SetsAreEquivalenceClasses ==
    (circuit.built /\ circuit.n_rows >= 1 /\ RecordedRefsValid) =>
        /\ \A a, b \in InputAddresses \cup LinkedAddresses :
              InSameSet(a, b) <=> b \in Connected({a})
        /\ \A j, k \in 1..Len(circuit.copy_constraints) :
              j # k => Range(circuit.copy_constraints[j])
                          \cap Range(circuit.copy_constraints[k]) = {}

\* C8: get_input_refs returns public_refs = [Input(1), ..., Input(n_pub)] and
\* private_refs = [Input(n_pub+1), ..., Input(n_pub+n_priv)], every one of them
\* the reference of a declared input.
C8_InputRefs ==
    ret.call = "get_input_refs" =>
        /\ ret.refs[1] = [k \in 1..input_config.n_pub |-> Input(k)]
        /\ ret.refs[2] = [k \in 1..input_config.n_priv |-> Input(input_config.n_pub + k)]
        /\ \A r \in Range(ret.refs[1]) \cup Range(ret.refs[2]) :
              r.id >= 1 /\ r.id <= total_input(input_config)

\* An operand is invalid at a call made with current_row = row: Input(x) with
\* x = 0 or x > n_inputs, Wire(x) with x >= 3 * row.
Invalid(r, row) ==
    \/ r.kind = "Input" /\ (r.id = 0 \/ r.id > total_input(input_config))
    \/ r.kind = "Wire" /\ r.id >= 3 * row

Message(side, r) ==
    <<side, IF r.kind = "Input" THEN "Input " ELSE "Wire ">>
        \o Digits(r.id) \o <<" does not exist.">>

\* C9: add_addition(lhs, rhs) and add_multiplication(lhs, rhs) return an error
\* exactly when an operand is invalid, and the error names the first invalid
\* operand, lhs before rhs, by side, kind and index.
C9_GateValidation ==
    ret.call \in {"add_addition", "add_multiplication"} =>
        LET lhs == ret.args[1]
            rhs == ret.args[2]
        IN  /\ ret.status \in {"Ok", "Err"}
            /\ ret.status = "Err" <=> (Invalid(lhs, ret.row) \/ Invalid(rhs, ret.row))
            /\ Invalid(lhs, ret.row) => ret.msg = Message("LHS: ", lhs)
            /\ (~Invalid(lhs, ret.row) /\ Invalid(rhs, ret.row))
                  => ret.msg = Message("RHS: ", rhs)

C9_Witness ==
    /\ input_config = InputConfig(1, 0)
    /\ current_row = 0
    /\ ret.call = "add_addition"
    /\ ret.status = "Err"
    /\ \/ /\ ret.args = <<Input(100), Input(1)>>
          /\ ret.msg = <<"LHS: ", "Input ", "1", "0", "0", " does not exist.">>
       \/ /\ ret.args = <<Input(1), Wire(1)>>
          /\ ret.msg = <<"RHS: ", "Wire ", "1", " does not exist.">>

\* F offers an evaluation domain of next_power_of_two(n_cells) points or more:
\* 2^a * q^b >= next_power_of_two(n_cells) for some a <= TWO_ADICITY and
\* b <= SMALL_SUBGROUP_BASE_ADICITY.
DomainExists ==
    \E a \in 0..prover.field.two_adicity :
        \E b \in 0..prover.field.small_subgroup_base_adicity :
            IntPow(2, a) * IntPow(prover.field.small_subgroup_base, b)
                >= next_power_of_two_from(circuit.n_cells, 1)

\* C10 as stated: compute_trace_polynomial returns an error in every state in
\* which no calculate_witness call has succeeded and a polynomial in every
\* state after one has.
C10_TracePolynomialNeedsWitness ==
    ret.call = "compute_trace_polynomial" =>
        /\ ret.status \in {"Ok", "Err"}
        /\ ret.status = "Ok" <=> witness_done

\* C10: compute_trace_polynomial returns an error in every state in which no
\* calculate_witness call has succeeded; after one has, it returns a
\* polynomial when F offers an evaluation domain of at least
\* next_power_of_two(n_cells) points and the domain error when it offers none.
C10_TracePolynomialNeedsWitnessAndDomain ==
    ret.call = "compute_trace_polynomial" =>
        /\ ret.status \in {"Ok", "Err"}
        /\ ret.status = "Ok" <=> (witness_done /\ DomainExists)
        /\ (witness_done /\ ~DomainExists) =>
              ret.msg = <<"Domain cannot be constructed from circuit size">>

C10_Witness ==
    /\ ret.call = "compute_trace_polynomial"
    /\ ret.status = "Ok"
    /\ witness_done
    /\ circuit.n_rows >= 1

\* The ready queue has drained with some trace cell still unset.
DrainedIncomplete ==
    /\ pc = "inputs"
    /\ i >= n_inputs(circuit)
    /\ eval_queue = <<>>
    /\ \E a \in DOMAIN trace : ~trace[a].some

\* C11: when the queue has drained with a cell still unset, calculate_witness
\* returns the incomplete-trace error (no abort, no success) and the stored
\* witness stays unset.
C11_IncompleteTraceIsError ==
    [][DrainedIncomplete =>
          /\ ret'.call = "calculate_witness"
          /\ ret'.status = "Err"
          /\ ret'.msg = <<"Not all the cells are filled">>
          /\ ~prover'.computation_trace.some]_vars

\* The prover holds the inputs of the worked example.
ExampleInputs ==
    /\ prover.live
    /\ prover.public_input = <<3, 5>>
    /\ prover.private_input = <<7>>

\* C12: on the worked example with public input [3, 5] and private input [7],
\* setup succeeds, prove() returns a Proof and verify(proof) returns true.
C12_ProveAndVerifyComplete ==
    /\ ret.call = "setup" => ret.status = "Ok"
    /\ (ExampleInputs /\ ret.call \in {"prove", "verify"}) => ret.status = "Ok"

\* The evaluation domain the polynomial calls build for the circuit.
CircuitDomain ==
    new_domain(prover.field, checked_next_power_of_two(circuit.n_cells).v)

\* C13: the polynomial compute_trace_polynomial returns evaluates at the domain
\* point of index j to trace[j], for every j in [0, n_cells).
C13_TraceRoundTrip ==
    (ret.call = "compute_trace_polynomial" /\ ret.status = "Ok") =>
        /\ Len(prover.computation_trace.v) = circuit.n_cells
        /\ CircuitDomain.size >= circuit.n_cells
        /\ \A j \in 0..(circuit.n_cells - 1) :
              evaluate(prover.field, ret.poly, element(prover.field, CircuitDomain, j))
                 = prover.computation_trace.v[j + 1]

\* A trace polynomial of a two-row circuit whose trace is not constant.
C13_Witness ==
    /\ ret.call = "compute_trace_polynomial"
    /\ ret.status = "Ok"
    /\ circuit.n_rows = 2
    /\ \E j \in 1..circuit.n_cells :
          prover.computation_trace.v[j] # prover.computation_trace.v[1]

\* C14: the public-input polynomial has the value of the k-th public input at
\* domain index n_cells - k for k = 1..n_pub and the value zero at every other
\* index of the domain, private-input addresses and padding included.
C14_PublicInputPolynomial ==
    (ret.call = "compute_public_input_polynomial" /\ ret.status = "Ok") =>
        \A j \in 0..(CircuitDomain.size - 1) :
            evaluate(prover.field, ret.poly, element(prover.field, CircuitDomain, j))
               = IF j < circuit.n_cells /\ circuit.n_cells - j <= Len(prover.public_input)
                 THEN prover.public_input[circuit.n_cells - j]
                 ELSE 0

\* The polynomial of two different non-zero public inputs, over a domain with
\* padding indices and a private-input address.
C14_Witness ==
    /\ ret.call = "compute_public_input_polynomial"
    /\ ret.status = "Ok"
    /\ Len(prover.public_input) = 2
    /\ prover.public_input[1] # prover.public_input[2]
    /\ prover.public_input[1] # 0
    /\ prover.public_input[2] # 0
    /\ Len(prover.private_input) >= 1
    /\ CircuitDomain.size > circuit.n_cells

\* C15, at the public-input addresses: for the trace T stored by a successful
\* calculate_witness and the evaluations V of compute_public_input_polynomial
\* for the same circuit and public input, T[y] - V[y] = 0 at y = n_cells - k
\* for k = 1..n_pub.
C15_PublicInputIdentity ==
    (WitnessOk /\ RecordedRefsValid /\ circuit.n_rows >= 1) =>
        LET T == prover.computation_trace.v
            V == public_input_evals(circuit, prover.public_input)
        IN  \A k \in 1..Len(prover.public_input) :
                T[circuit.n_cells - k + 1] = V[circuit.n_cells - k + 1]

\* The vector v padded with zeros to n entries, read at index j modulo n.
PaddedAt(v, n, j) == IF (j % n) < Len(v) THEN v[(j % n) + 1] ELSE 0

\* The gate identity at domain index j for trace T and selector evaluations S
\* over a domain of n points, in the field of order p.
GateIdentity(p, T, S, n, j) ==
    LET s == PaddedAt(S, n, j)
        t0 == PaddedAt(T, n, j)
        t1 == PaddedAt(T, n, j + 1)
        t2 == PaddedAt(T, n, j + 2)
    IN  (s * (t0 + t1) + (1 - s) * t0 * t1 - t2) % p = 0

\* C16, at the row indices: for the trace T stored by a successful
\* calculate_witness and the selector evaluations S of
\* compute_selector_polynomial for the same circuit,
\* S[j]*(T[j] + T[j+1]) + (1 - S[j])*T[j]*T[j+1] - T[j+2] = 0 at every
\* index j = 3r of a row r.
C16_GateIdentity ==
    (WitnessOk /\ RecordedRefsValid /\ circuit.n_rows >= 1 /\ CircuitDomain.some) =>
        \A r \in 0..(circuit.n_rows - 1) :
            GateIdentity(prover.field.p, prover.computation_trace.v,
                         selector_evals(circuit.selectors, 1), CircuitDomain.size, 3 * r)

\* C17: build() on a builder without rows does not yield a Circuit.
C17_ZeroRowBuildFails ==
    (ret.call = "build" /\ current_row = 0) =>
        /\ ret.status \in {"Err", "Panic"}
        /\ ~circuit.built

\* C18: a successful add_addition(lhs, rhs) or add_multiplication(lhs, rhs)
\* made at current_row = r appends one Op (Add resp. Mul), appends the pairs
\* (lhs, Wire(3r)) and (rhs, Wire(3r+1)) in that order, makes current_row r+1
\* and returns Wire(3r+2), a valid operand of every later gate call.
C18_GateCallEffects ==
    [][(ret'.call \in {"add_addition", "add_multiplication"} /\ ret'.status = "Ok") =>
          LET r == current_row
              lhs == ret'.args[1]
              rhs == ret'.args[2]
          IN  /\ ops' = Append(ops, IF ret'.call = "add_addition" THEN "Add" ELSE "Mul")
              /\ wiring_pairs' = wiring_pairs
                                    \o << <<lhs, Wire(3 * r)>>, <<rhs, Wire(3 * r + 1)>> >>
              /\ current_row' = r + 1
              /\ ret'.ref = Wire(3 * r + 2)
              /\ input_config' = input_config
              /\ \A later \in (r + 1)..(MaxRows + 1) :
                    validate_cell_ref(input_config, later, ret'.ref) = <<>>]_vars

\* A second row added by a successful add_multiplication of the first row's
\* output and an input.
C18_Witness ==
    /\ ret.call = "add_multiplication"
    /\ ret.status = "Ok"
    /\ ret.args[1] = Wire(2)
    /\ ret.args[2].kind = "Input"
    /\ ret.ref = Wire(5)
    /\ current_row = 2
    /\ Len(wiring_pairs) = 4

\* C19: a Circuit returned by build() has n_rows equal to the number of
\* successful gate calls, selectors equal to their Ops in declaration order,
\* n_cells = n_inputs + 3 * n_rows and output = 3 * n_rows - 1, the out address
\* of the last row (an output below zero stands for a wrapped usize).
C19_CircuitFields ==
    (ret.call = "build" /\ ret.status = "Ok") =>
        /\ circuit.built
        /\ circuit.n_rows = current_row
        /\ circuit.selectors = ops
        /\ Len(circuit.selectors) = circuit.n_rows
        /\ circuit.n_cells = total_input(input_config) + 3 * circuit.n_rows
        /\ circuit.output = 3 * circuit.n_rows - 1
        /\ circuit.output >= 0

\* C20: the union of the copy-constraint sets of a built circuit is the set of
\* the input addresses and of the addresses on either side of a recorded
\* pair; an input in no pair is in exactly one set, alone, and a wire address
\* in no pair is in no set, so that get_copy_constraints returns None for it.
C20_UnionOfSets ==
    (ret.call = "build" /\ ret.status = "Ok") =>
        LET sets == circuit.copy_constraints
        IN  /\ UNION {Range(sets[k]) : k \in 1..Len(sets)}
                  = InputAddresses \cup LinkedAddresses
            /\ \A a \in InputAddresses \ LinkedAddresses :
                  /\ Cardinality({k \in 1..Len(sets) : a \in Range(sets[k])}) = 1
                  /\ get_copy_constraints(circuit, a) = Some(<<a>>)
            /\ \A a \in 0..(3 * circuit.n_rows - 1) :
                  a \notin LinkedAddresses => ~get_copy_constraints(circuit, a).some

\* A built two-row circuit with an input used in no pair and a row output
\* used in no pair, together with an explicit wire constraint or not.
C20_Witness ==
    /\ ret.call = "build"
    /\ ret.status = "Ok"
    /\ circuit.n_rows = 2
    /\ InputAddresses \ LinkedAddresses # {}
    /\ 2 \notin LinkedAddresses
    /\ \E k \in 1..Len(circuit.copy_constraints) : Len(circuit.copy_constraints[k]) >= 3

\* C21: after a successful calculate_witness on a built circuit with at least
\* one row and valid recorded references, the stored trace holds at address
\* n_cells - (k + 1) the input value of index k, public inputs first and then
\* private inputs, for every k in [0, n_inputs).
C21_InputsAtTheirAddresses ==
    (WitnessOk /\ RecordedRefsValid /\ circuit.n_rows >= 1) =>
        \A k \in 0..(n_inputs(circuit) - 1) :
            prover.computation_trace.v[circuit.n_cells - (k + 1) + 1]
               = get_input_val(prover, k).v

\* C22: the polynomial compute_selector_polynomial returns has, at the domain
\* index 3r of every row r in [0, n_rows), the value 1 when the row is an
\* addition and 0 when it is a multiplication, and the value 0 at every other
\* index of the domain.
C22_SelectorEvaluations ==
    (ret.call = "compute_selector_polynomial" /\ ret.status = "Ok") =>
        \A j \in 0..(CircuitDomain.size - 1) :
            evaluate(prover.field, ret.poly, element(prover.field, CircuitDomain, j))
               = IF j % 3 = 0 /\ j \div 3 < circuit.n_rows
                    /\ circuit.selectors[(j \div 3) + 1] = "Add"
                 THEN 1
                 ELSE 0

\* The selector polynomial of a two-row circuit whose second row is an
\* addition, over a domain with indices past the last row.
C22_Witness ==
    /\ ret.call = "compute_selector_polynomial"
    /\ ret.status = "Ok"
    /\ circuit.n_rows = 2
    /\ circuit.selectors[2] = "Add"
    /\ CircuitDomain.size > 3 * circuit.n_rows

\* C23: while calculate_witness runs, every address id held in eval_queue is
\* the out address of a row, id = 3r + 2 with r < n_rows, and the operand
\* cells trace[id - 2] and trace[id - 1] of that row are both assigned.
C23_QueuedRowsAreReady ==
    pc = "inputs" =>
        \A k \in 1..Len(eval_queue) :
            LET id == eval_queue[k]
            IN  /\ id % 3 = 2
                /\ id >= 2
                /\ id \div 3 < circuit.n_rows
                /\ get_selector(circuit, id \div 3).some
                /\ trace[id - 2].some
                /\ trace[id - 1].some

\* calculate_witness holds two entries in the queue at once, in a circuit
\* with an explicit wire constraint (one row, queued twice).
C23_Witness ==
    /\ pc = "inputs"
    /\ Len(eval_queue) = 2
    /\ Len(wiring_pairs) > 2 * circuit.n_rows

\* C24: every address stored in a copy-constraint set of a circuit that
\* build() returned lies in [0, n_cells).
C24_AddressesInRange ==
    (circuit.built /\ circuit.n_rows >= 1) =>
        \A k \in 1..Len(circuit.copy_constraints) :
            \A a \in Range(circuit.copy_constraints[k]) :
                0 <= a /\ a < circuit.n_cells

\* C25: a step that is an add_addition or add_multiplication call returning
\* an error leaves current_row, ops and wiring_pairs (and the input
\* configuration) as they were before the call.
C25_FailedGateCallChangesNothing ==
    [][(ret'.call \in {"add_addition", "add_multiplication"} /\ ret'.status = "Err")
          => UNCHANGED builder_vars]_vars

\* A gate call has failed on its rhs operand, its lhs operand being valid, on
\* a builder that already holds a row.
C25_Witness ==
    /\ ret.call \in {"add_addition", "add_multiplication"}
    /\ ret.status = "Err"
    /\ validate_cell_ref(input_config, current_row, ret.args[1]) = <<>>
    /\ validate_cell_ref(input_config, current_row, ret.args[2]) # <<>>
    /\ ret.row = current_row
    /\ current_row = 1
    /\ Len(ops) = 1
    /\ Len(wiring_pairs) = 2

\* A step of calculate_witness that is one iteration of one of its loops.
WitnessLoopStep ==
    /\ pc = "inputs"
    /\ i < n_inputs(circuit) \/ eval_queue # <<>>
    /\ trace' # <<>>

\* The addresses a loop iteration has pushed: eval_queue' without what was
\* left of eval_queue (the queue loop pops the head first).
Pushed ==
    LET kept == IF i < n_inputs(circuit) THEN eval_queue ELSE Tail(eval_queue)
    IN  SubSeq(eval_queue', Len(kept) + 1, Len(eval_queue'))

\* C26: on a circuit built from add_addition and add_multiplication calls
\* alone, an address a loop iteration of calculate_witness pushes is pushed
\* once, is not in the queue already and has not been evaluated before, and
\* an assigned trace cell keeps its value.
C26_SinglePass ==
    [][(WitnessLoopStep /\ Len(wiring_pairs) = 2 * circuit.n_rows) =>
          /\ \A k \in 1..Len(Pushed) :
                /\ Pushed[k] \notin Range(eval_queue)
                /\ ~trace[Pushed[k]].some
                /\ \A j \in 1..Len(Pushed) : j # k => Pushed[j] # Pushed[k]
          /\ \A a \in DOMAIN trace : trace[a].some => trace'[a] = trace[a]]_vars

\* calculate_witness has evaluated both rows of a two-row circuit built from
\* gate calls alone, the second row through the first row's output.
C26_Witness ==
    /\ pc = "inputs"
    /\ Len(wiring_pairs) = 2 * circuit.n_rows
    /\ circuit.n_rows = 2
    /\ eval_queue = <<>>
    /\ trace[2].some
    /\ trace[5].some
    /\ get_copy_constraints(circuit, 2).some

\* C27: a calculate_witness call that has started reaches, after finitely
\* many loop iterations, the end of its queue loop with eval_queue empty,
\* whatever builder calls produced the circuit.
C27_QueueDrains ==
    (pc = "inputs") ~> (pc = "inputs" /\ i >= n_inputs(circuit) /\ eval_queue = <<>>)

====
